---- MODULE Spec2Model ----
(***************************************************************************)
(* Model of the snapshot fetch tool (package fetch, func run) and of the   *)
(* cluster scraper (package scraper, type Scraper), both in                *)
(* src/internal/cmd/fetch/fetch.go.  The two are separate programs; each   *)
(* has its own specification over the shared variable tuple.               *)
(***************************************************************************)
EXTENDS Integers, Sequences, FiniteSets, TLC

\* ------------------------------------------------------------------ bounds
MaxSlot == 2
MaxFiles == 3
MaxCycles == 2

\* uint64 arithmetic (minSnapAge, maxSnapAge, Slot), scaled to 4 bits.
UintModulus == 16

Nil == "nil"

\* The nil error and the absent snapshot (Go's nil / zero value).
NilErr == [file |-> 0, cause |-> "nil"]
NoSnapshot == [Slot |-> 0, BaseSlot |-> 0, Hash |-> 0, Files |-> <<>>]

\* ------------------------------------------------------------ input sets
Slots == 1..MaxSlot
BaseSlots == {0, 1}
Hashes == {1}
MinAges == {1, 2}
MaxAges == {1}

SnapshotFile == [Slot : Slots, BaseSlot : BaseSlots, Hash : Hashes]

\* The files of one catalog entry: n file names, tagged by the entry.
FilesOf(s, n) == [i \in 1..n |-> [FileName |-> <<s.Slot, s.BaseSlot, s.Hash, i>>]]

\* One remote catalog entry (a snapshot with the files that make it up).
SnapshotSource(s, n) ==
    [Slot |-> s.Slot, BaseSlot |-> s.BaseSlot, Hash |-> s.Hash, Files |-> FilesOf(s, n)]

SeqsUpTo2(S) == {<<>>} \cup {<<a>> : a \in S} \cup {<<a, b>> : a \in S, b \in S}

LocalInventories == {<<>>} \cup {<<a>> : a \in SnapshotFile}

RemoteCatalogs ==
    UNION {SeqsUpTo2({SnapshotSource(s, n) : s \in SnapshotFile}) : n \in 0..MaxFiles}

\* --------------------------------------------------------------- state
VARIABLES
    \* fetch tool (func run)
    pc,            \* position of run()
    minSnapAge,    \* --min-slots
    maxSnapAge,    \* --max-slots
    err,           \* err of ListSnapshots / GetBestSnapshots: which call failed
    localSnaps,    \* result of ledger.ListSnapshots
    remoteSnaps,   \* result of trackerClient.GetBestSnapshots
    advice,        \* second result of fetch.ShouldFetchSnapshot
    chosen,        \* first result of fetch.ShouldFetchSnapshot (discarded by run)
    snap,          \* &remoteSnaps[0]
    next,          \* number of group.Go calls made by the loop over snap.Files
    task,          \* per file: state of its download goroutine
    attempts,      \* per file: calls of DownloadSnapshotFile
    ctxDone,       \* the errgroup's derived context is cancelled
    groupErr,      \* the errgroup's recorded error
    firstErr,      \* history: the error of the first download that failed
    downloadErr,   \* result of group.Wait()
    calls,         \* history: calls of the collaborators
    \* scraper (type Scraper)
    runPc,         \* position of Scraper.run
    closePc,       \* position of Scraper.Close
    rootDone,      \* s.rootCtx is cancelled
    wgCount,       \* s.wg
    cycle,         \* number of cycles run() has started
    subCancelled,  \* per cycle: cancel() of its sub-context was called
    scrapePc,      \* per cycle: position of its Scraper.scrape goroutine
    targets,       \* per cycle: the targets DiscoverTargets returned
    probe,         \* per cycle and target: state of its probe goroutine
    published,     \* per cycle and target: the ProbeResults received from results
    \* comparator (TestSnapshotFile_Compare)
    cmpArgs,       \* the SnapshotFile values a, b, c handed to Compare
    cmpRes         \* what Compare returned for (a,a), (a,b), (b,a), (b,c), (a,c)

fetchVars == <<pc, minSnapAge, maxSnapAge, err, localSnaps, remoteSnaps, advice, chosen,
               snap, next, task, attempts, ctxDone, groupErr, firstErr, downloadErr, calls>>

scraperVars == <<runPc, closePc, rootDone, wgCount, cycle, subCancelled, scrapePc,
                 targets, probe, published>>

compareVars == <<cmpArgs, cmpRes>>

vars == <<fetchVars, scraperVars, compareVars>>

\* ------------------------------------------------ SnapshotFile.Compare
worsee == 0 - 1
sameee == 0
better == 1

\* Faulty variant: the full-over-incremental tier looks at a only, so two full
\* snapshots of one slot are each better than the other.
CompareFullOnlyLeft(a, b) ==
    IF a.Slot # b.Slot THEN (IF a.Slot > b.Slot THEN better ELSE worsee)
    ELSE IF a.BaseSlot = 0 THEN better
    ELSE IF a.BaseSlot # 0 /\ b.BaseSlot = 0 THEN worsee
    ELSE IF a.BaseSlot # b.BaseSlot THEN (IF a.BaseSlot > b.BaseSlot THEN better ELSE worsee)
    ELSE IF a.Hash # b.Hash THEN (IF a.Hash > b.Hash THEN better ELSE worsee)
    ELSE sameee

\* Faulty variant: BaseSlot is compared as a number, so that a full snapshot
\* (BaseSlot 0) is worse than every incremental one of its slot.
CompareBaseNumeric(a, b) ==
    IF a.Slot # b.Slot THEN (IF a.Slot > b.Slot THEN better ELSE worsee)
    ELSE IF a.BaseSlot # b.BaseSlot THEN (IF a.BaseSlot > b.BaseSlot THEN better ELSE worsee)
    ELSE IF a.Hash # b.Hash THEN (IF a.Hash > b.Hash THEN better ELSE worsee)
    ELSE sameee

\* a relative to b: slot, then full over incremental, then base slot, then hash.
Compare(a, b) ==
    IF a.Slot # b.Slot THEN (IF a.Slot > b.Slot THEN better ELSE worsee)
    ELSE IF a.BaseSlot = 0 /\ b.BaseSlot # 0 THEN better
    ELSE IF a.BaseSlot # 0 /\ b.BaseSlot = 0 THEN worsee
    ELSE IF a.BaseSlot # b.BaseSlot THEN (IF a.BaseSlot > b.BaseSlot THEN better ELSE worsee)
    ELSE IF a.Hash # b.Hash THEN (IF a.Hash > b.Hash THEN better ELSE worsee)
    ELSE sameee

\* Insert x into the best-first sequence s, after the entries that are not worse.
RECURSIVE InsertBestFirst(_, _)
InsertBestFirst(x, s) ==
    IF s = <<>> THEN <<x>>
    ELSE IF Compare(x, Head(s)) = better THEN <<x>> \o s
    ELSE <<Head(s)>> \o InsertBestFirst(x, Tail(s))

RECURSIVE SortBestFirst(_)
SortBestFirst(s) ==
    IF s = <<>> THEN <<>>
    ELSE InsertBestFirst(Head(s), SortBestFirst(Tail(s)))

\* Unsigned subtraction.
USub(a, b) == (a - b + UintModulus) % UintModulus

\* ------------------------------------------- fetch.ShouldFetchSnapshot
AdviceNothingFound == "NothingFound"
AdviceUpToDate == "UpToDate"
AdviceFetch == "Fetch"

ShouldFetchSnapshot(local, remote, minAge, maxAge) ==
    IF remote = <<>> THEN [chosen |-> NoSnapshot, advice |-> AdviceNothingFound]
    ELSE
        LET sortedRemote == SortBestFirst(remote)
            remoteBestSlot == sortedRemote[1].Slot
            fresh == SelectSeq(sortedRemote,
                               LAMBDA c : ~(USub(remoteBestSlot, c.Slot) > maxAge))
            sortedLocal == SortBestFirst(local)
            localBestSlot == IF sortedLocal = <<>> THEN 0 ELSE sortedLocal[1].Slot
        IN  IF USub(remoteBestSlot, localBestSlot) < minAge
            THEN [chosen |-> NoSnapshot, advice |-> AdviceUpToDate]
            ELSE [chosen |-> fresh[1], advice |-> AdviceFetch]

\* ------------------------------------------------------- fetch: run()
\* Before run() has assigned anything.
FetchZero ==
    /\ err = Nil
    /\ localSnaps = <<>>
    /\ remoteSnaps = <<>>
    /\ advice = Nil
    /\ chosen = NoSnapshot
    /\ snap = NoSnapshot
    /\ next = 0
    /\ task = <<>>
    /\ attempts = <<>>
    /\ ctxDone = FALSE
    /\ groupErr = NilErr
    /\ firstErr = NilErr
    /\ downloadErr = NilErr
    /\ calls = [list |-> 0, tracker |-> 0, advisor |-> 0]

\* The flags are parsed, run() is entered.
FetchStart ==
    /\ pc = "ListSnapshots"
    /\ minSnapAge \in MinAges
    /\ maxSnapAge \in MaxAges
    /\ FetchZero

\* A process that is not the fetch tool.
FetchAbsent ==
    /\ pc = "absent"
    /\ minSnapAge = 0
    /\ maxSnapAge = 0
    /\ FetchZero

\* log.Fatal: the process exits.
Fatal == "fatal"

\* localSnaps, err := ledger.ListSnapshots(...); if err != nil { log.Fatal }
ListSnapshots ==
    /\ pc = "ListSnapshots"
    /\ calls' = [calls EXCEPT !.list = @ + 1]
    /\ \/ /\ err' = "list"
          /\ pc' = Fatal
          /\ UNCHANGED localSnaps
       \/ /\ err' = Nil
          /\ localSnaps' \in LocalInventories
          /\ pc' = "GetBestSnapshots"
    /\ UNCHANGED <<minSnapAge, maxSnapAge, remoteSnaps, advice, chosen, snap, next, task,
                   attempts, ctxDone, groupErr, firstErr, downloadErr,
                   scraperVars, compareVars>>

\* Faulty variant: the error of GetBestSnapshots is only logged, run() goes on.
GetBestSnapshotsIgnoreErr ==
    /\ pc = "GetBestSnapshots"
    /\ calls' = [calls EXCEPT !.tracker = @ + 1]
    /\ \/ /\ err' = "tracker"
          /\ UNCHANGED remoteSnaps
       \/ /\ err' = Nil
          /\ remoteSnaps' \in RemoteCatalogs
    /\ pc' = "ShouldFetchSnapshot"
    /\ UNCHANGED <<minSnapAge, maxSnapAge, localSnaps, advice, chosen, snap, next, task,
                   attempts, ctxDone, groupErr, firstErr, downloadErr, scraperVars, compareVars>>

\* remoteSnaps, err := trackerClient.GetBestSnapshots(ctx, -1); if err != nil { log.Fatal }
GetBestSnapshots ==
    /\ pc = "GetBestSnapshots"
    /\ calls' = [calls EXCEPT !.tracker = @ + 1]
    /\ \/ /\ err' = "tracker"
          /\ pc' = Fatal
          /\ UNCHANGED remoteSnaps
       \/ /\ err' = Nil
          /\ remoteSnaps' \in RemoteCatalogs
          /\ pc' = "ShouldFetchSnapshot"
    /\ UNCHANGED <<minSnapAge, maxSnapAge, localSnaps, advice, chosen, snap, next, task,
                   attempts, ctxDone, groupErr, firstErr, downloadErr,
                   scraperVars, compareVars>>

\* _, advice := fetch.ShouldFetchSnapshot(localSnaps, remoteSnaps, minSnapAge, maxSnapAge)
Advise ==
    /\ pc = "ShouldFetchSnapshot"
    /\ calls' = [calls EXCEPT !.advisor = @ + 1]
    /\ LET r == ShouldFetchSnapshot(localSnaps, remoteSnaps, minSnapAge, maxSnapAge)
       IN  /\ advice' = r.advice
           /\ chosen' = r.chosen
    /\ pc' = "switch"
    /\ UNCHANGED <<minSnapAge, maxSnapAge, err, localSnaps, remoteSnaps, snap, next, task,
                   attempts, ctxDone, groupErr, firstErr, downloadErr,
                   scraperVars, compareVars>>

\* Faulty variant: the NothingFound case has no return and falls out of the
\* switch to snap := &remoteSnaps[0], which panics on the empty catalog.
SwitchNothingFoundFallThrough ==
    /\ pc = "switch"
    /\ advice = AdviceNothingFound
    /\ pc' = "panic"
    /\ UNCHANGED <<minSnapAge, maxSnapAge, err, localSnaps, remoteSnaps, advice, chosen, snap,
                   next, task, attempts, ctxDone, groupErr, firstErr, downloadErr, calls,
                   scraperVars, compareVars>>

\* case fetch.AdviceNothingFound: log.Error(...); return
SwitchNothingFound ==
    /\ pc = "switch"
    /\ advice = AdviceNothingFound
    /\ pc' = "returned"
    /\ UNCHANGED <<minSnapAge, maxSnapAge, err, localSnaps, remoteSnaps, advice, chosen, snap,
                   next, task, attempts, ctxDone, groupErr, firstErr, downloadErr, calls,
                   scraperVars, compareVars>>

\* case fetch.AdviceUpToDate: log.Info(..., localSnaps[0].Slot); return
\* Indexing an empty localSnaps panics (index out of range).
SwitchUpToDate ==
    /\ pc = "switch"
    /\ advice = AdviceUpToDate
    /\ pc' = IF Len(localSnaps) = 0 THEN "panic" ELSE "returned"
    /\ UNCHANGED <<minSnapAge, maxSnapAge, err, localSnaps, remoteSnaps, advice, chosen, snap,
                   next, task, attempts, ctxDone, groupErr, firstErr, downloadErr, calls,
                   scraperVars, compareVars>>

\* The snapshot run() goes on to download: snap := &remoteSnaps[0].
SnapToDownload(remote) == remote[1]

\* case fetch.AdviceFetch: fall out of the switch; snap := &remoteSnaps[0];
\* group, ctx := errgroup.WithContext(ctx)
SwitchFetch ==
    /\ pc = "switch"
    /\ advice = AdviceFetch
    /\ snap' = SnapToDownload(remoteSnaps)
    /\ task' = [i \in 1..Len(snap'.Files) |-> "idle"]
    /\ attempts' = [i \in 1..Len(snap'.Files) |-> 0]
    /\ next' = 0
    /\ pc' = "launch"
    /\ UNCHANGED <<minSnapAge, maxSnapAge, err, localSnaps, remoteSnaps, advice, chosen,
                   ctxDone, groupErr, firstErr, downloadErr, calls,
                   scraperVars, compareVars>>

\* for _, file := range snap.Files { group.Go(func() error { DownloadSnapshotFile(...) }) }
\* One iteration: the goroutine of file next+1 is started and calls DownloadSnapshotFile.
GroupGo ==
    /\ pc = "launch"
    /\ next < Len(snap.Files)
    /\ next' = next + 1
    /\ task' = [task EXCEPT ![next + 1] = "running"]
    /\ attempts' = [attempts EXCEPT ![next + 1] = @ + 1]
    /\ UNCHANGED <<pc, minSnapAge, maxSnapAge, err, localSnaps, remoteSnaps, advice, chosen,
                   snap, ctxDone, groupErr, firstErr, downloadErr, calls,
                   scraperVars, compareVars>>

\* The loop over snap.Files ends; run() calls group.Wait().
LoopEnd ==
    /\ pc = "launch"
    /\ next = Len(snap.Files)
    /\ pc' = "wait"
    /\ UNCHANGED <<minSnapAge, maxSnapAge, err, localSnaps, remoteSnaps, advice, chosen, snap,
                   next, task, attempts, ctxDone, groupErr, firstErr, downloadErr, calls,
                   scraperVars, compareVars>>

\* Faulty variant: every error overwrites the recorded one.
ErrLast(recorded, e) == e

\* errgroup: only the first error returned by a task is kept (errOnce).
ErrOnce(recorded, e) == IF recorded = NilErr THEN e ELSE recorded

\* Faulty variant: a plain group, whose failures do not cancel the context.
TaskFailsNoCancel(f, e) ==
    /\ task' = [task EXCEPT ![f] = IF e.cause = "canceled" THEN "canceled" ELSE "failed"]
    /\ firstErr' = IF firstErr = NilErr THEN e ELSE firstErr
    /\ groupErr' = ErrOnce(groupErr, e)
    /\ UNCHANGED <<pc, minSnapAge, maxSnapAge, err, localSnaps, remoteSnaps, advice, chosen,
                   snap, next, attempts, ctxDone, downloadErr, calls, scraperVars, compareVars>>

\* A task's function returns err != nil: log.Error("Download failed"); return err.
\* The group keeps the first error and cancels the context derived by WithContext.
TaskFails(f, e) ==
    /\ task' = [task EXCEPT ![f] = IF e.cause = "canceled" THEN "canceled" ELSE "failed"]
    /\ firstErr' = IF firstErr = NilErr THEN e ELSE firstErr
    /\ groupErr' = ErrOnce(groupErr, e)
    /\ ctxDone' = TRUE
    /\ UNCHANGED <<pc, minSnapAge, maxSnapAge, err, localSnaps, remoteSnaps, advice, chosen,
                   snap, next, attempts, downloadErr, calls,
                   scraperVars, compareVars>>

\* DownloadSnapshotFile returns nil.
DownloadOk(f) ==
    /\ pc \in {"launch", "wait"}
    /\ f \in DOMAIN task
    /\ task[f] = "running"
    /\ task' = [task EXCEPT ![f] = "ok"]
    /\ UNCHANGED <<pc, minSnapAge, maxSnapAge, err, localSnaps, remoteSnaps, advice, chosen,
                   snap, next, attempts, ctxDone, groupErr, firstErr, downloadErr, calls,
                   scraperVars, compareVars>>

\* Faulty variant: the task calls DownloadSnapshotFile again after an error.
DownloadFailRetry(f) ==
    /\ pc \in {"launch", "wait"}
    /\ f \in DOMAIN task
    /\ task[f] = "running"
    /\ attempts' = [attempts EXCEPT ![f] = @ + 1]
    /\ UNCHANGED <<pc, minSnapAge, maxSnapAge, err, localSnaps, remoteSnaps, advice, chosen,
                   snap, next, task, ctxDone, groupErr, firstErr, downloadErr, calls,
                   scraperVars, compareVars>>

\* DownloadSnapshotFile returns an error of its own (network, disk).
DownloadFail(f) ==
    /\ pc \in {"launch", "wait"}
    /\ f \in DOMAIN task
    /\ task[f] = "running"
    /\ TaskFails(f, [file |-> f, cause |-> "io"])

\* Faulty variant: the download is given the outer context (context.TODO()),
\* which is never cancelled, so it never aborts.
DownloadAbortParentCtx(f) ==
    /\ FALSE
    /\ UNCHANGED vars

\* DownloadSnapshotFile observes the cancelled context and returns its error.
DownloadAbort(f) ==
    /\ pc \in {"launch", "wait"}
    /\ f \in DOMAIN task
    /\ task[f] = "running"
    /\ ctxDone
    /\ TaskFails(f, [file |-> f, cause |-> "canceled"])

\* The task of file f returned an error / has returned.
Failed(f) == task[f] \in {"failed", "canceled"}
Finished(f) == task[f] = "ok" \/ Failed(f)

\* downloadErr := group.Wait(): all tasks have returned; the context is cancelled.
GroupWait ==
    /\ pc = "wait"
    /\ \A f \in 1..Len(task) : Finished(f)
    /\ downloadErr' = groupErr
    /\ ctxDone' = TRUE
    /\ pc' = "done"
    /\ UNCHANGED <<minSnapAge, maxSnapAge, err, localSnaps, remoteSnaps, advice, chosen, snap,
                   next, task, attempts, groupErr, firstErr, calls,
                   scraperVars, compareVars>>

FetchNext ==
    \/ ListSnapshots
    \/ GetBestSnapshots
    \/ Advise
    \/ SwitchNothingFound
    \/ SwitchUpToDate
    \/ SwitchFetch
    \/ GroupGo
    \/ LoopEnd
    \/ \E f \in 1..MaxFiles : DownloadOk(f)
    \/ \E f \in 1..MaxFiles : DownloadFail(f)
    \/ \E f \in 1..MaxFiles : DownloadAbort(f)
    \/ GroupWait


\* --------------------------------------------------------- scraper
Cycles == 1..MaxCycles

\* The target lists DiscoverTargets may return, and the positions in them.
TargetLists == {<<>>, <<"a", "b">>}
Positions == {1, 2}

\* NewScraper: rootCtx, cancel := context.WithCancel(context.Background())
ScraperStart ==
    /\ runPc = "idle"
    /\ closePc = "idle"
    /\ rootDone = FALSE
    /\ wgCount = 0
    /\ cycle = 0
    /\ subCancelled = [c \in Cycles |-> FALSE]
    /\ scrapePc = [c \in Cycles |-> "none"]
    /\ targets = [c \in Cycles |-> <<>>]
    /\ probe = [c \in Cycles |-> <<>>]
    /\ published = [c \in Cycles |-> <<>>]

\* ctx of cycle c, derived from s.rootCtx, is done.
CtxDone(c) == subCancelled[c] \/ rootDone

\* Start: s.wg.Add(1); go s.run(results, interval)
Start ==
    /\ runPc = "idle"
    /\ wgCount' = wgCount + 1
    /\ runPc' = "loop"
    /\ UNCHANGED <<closePc, rootDone, cycle, subCancelled, scrapePc, targets, probe,
                   published,
                   fetchVars, compareVars>>

\* Close: s.cancel(), then s.wg.Wait().  Close is called on a started scraper, once.
Close ==
    /\ closePc = "idle"
    /\ runPc # "idle"
    /\ rootDone' = TRUE
    /\ closePc' = "waiting"
    /\ UNCHANGED <<runPc, wgCount, cycle, subCancelled, scrapePc, targets, probe,
                   published,
                   fetchVars, compareVars>>

\* Close: s.wg.Wait() returns.
CloseReturn ==
    /\ closePc = "waiting"
    /\ wgCount = 0
    /\ closePc' = "returned"
    /\ UNCHANGED <<runPc, rootDone, wgCount, cycle, subCancelled, scrapePc, targets,
                   probe, published,
                   fetchVars, compareVars>>

\* Faulty variant: the loop waits for the previous cycle's scrape and probes to
\* end before it starts the next cycle.
RunCycleWaitsForPrevious ==
    /\ runPc = "loop"
    /\ cycle > 0 => /\ scrapePc[cycle] \in {"skipped", "returned"}
                    /\ \A i \in DOMAIN probe[cycle] : probe[cycle][i] = "done"
    /\ cycle' = cycle + 1
    /\ scrapePc' = [scrapePc EXCEPT ![cycle + 1] = "discover"]
    /\ runPc' = "select"
    /\ UNCHANGED <<closePc, rootDone, wgCount, subCancelled, targets, probe, published,
                   fetchVars, compareVars>>

\* run: ctx, cancel := context.WithCancel(s.rootCtx); go s.scrape(ctx, results)
RunCycle ==
    /\ runPc = "loop"
    /\ cycle' = cycle + 1
    /\ scrapePc' = [scrapePc EXCEPT ![cycle + 1] = "discover"]
    /\ runPc' = "select"
    /\ UNCHANGED <<closePc, rootDone, wgCount, subCancelled, targets, probe, published,
                   fetchVars, compareVars>>

\* Faulty variant: the tick starts the next iteration without cancel().
RunTickNoCancel ==
    /\ runPc = "select"
    /\ cycle < MaxCycles
    /\ runPc' = "loop"
    /\ UNCHANGED <<closePc, rootDone, wgCount, cycle, subCancelled, scrapePc, targets,
                   probe, published,
                   fetchVars, compareVars>>

\* run: case <-ticker.C: cancel()
RunTick ==
    /\ runPc = "select"
    /\ cycle < MaxCycles
    /\ subCancelled' = [subCancelled EXCEPT ![cycle] = TRUE]
    /\ runPc' = "loop"
    /\ UNCHANGED <<closePc, rootDone, wgCount, cycle, scrapePc, targets, probe,
                   published,
                   fetchVars, compareVars>>

\* Faulty variant: before it returns, run() waits until the cycle in flight has
\* published all its results.
RunShutdownJoinsCycle ==
    /\ runPc = "select"
    /\ rootDone
    /\ scrapePc[cycle] \in {"skipped", "returned"}
    /\ subCancelled' = [subCancelled EXCEPT ![cycle] = TRUE]
    /\ wgCount' = wgCount - 1
    /\ runPc' = "returned"
    /\ UNCHANGED <<closePc, rootDone, cycle, scrapePc, targets, probe, published,
                   fetchVars, compareVars>>

\* run: case <-s.rootCtx.Done(): cancel(); return  (deferred: ticker.Stop, s.wg.Done)
RunShutdown ==
    /\ runPc = "select"
    /\ rootDone
    /\ subCancelled' = [subCancelled EXCEPT ![cycle] = TRUE]
    /\ wgCount' = wgCount - 1
    /\ runPc' = "returned"
    /\ UNCHANGED <<closePc, rootDone, cycle, scrapePc, targets, probe, published,
                   fetchVars, compareVars>>

\* Faulty variant: a discovery error shuts the scraper down (s.cancel()).
DiscoverFailsFatal(c) ==
    /\ scrapePc[c] = "discover"
    /\ scrapePc' = [scrapePc EXCEPT ![c] = "skipped"]
    /\ rootDone' = TRUE
    /\ UNCHANGED <<runPc, closePc, wgCount, cycle, subCancelled, targets, probe,
                   published, fetchVars, compareVars>>

\* scrape: DiscoverTargets returns an error: log it and return.
DiscoverFails(c) ==
    /\ scrapePc[c] = "discover"
    /\ scrapePc' = [scrapePc EXCEPT ![c] = "skipped"]
    /\ UNCHANGED <<runPc, closePc, rootDone, wgCount, cycle, subCancelled, targets,
                   probe, published,
                   fetchVars, compareVars>>

\* scrape: DiscoverTargets returns targets; wg.Add(len(targets)); one goroutine per
\* target is started, each calling s.prober.Probe(ctx, target).
DiscoverSucceeds(c) ==
    /\ scrapePc[c] = "discover"
    /\ \E T \in TargetLists :
          /\ targets' = [targets EXCEPT ![c] = T]
          /\ probe' = [probe EXCEPT ![c] = [i \in 1..Len(T) |-> "probing"]]
          /\ published' = [published EXCEPT ![c] = [i \in 1..Len(T) |-> <<>>]]
    /\ scrapePc' = [scrapePc EXCEPT ![c] = "wait"]
    /\ UNCHANGED <<runPc, closePc, rootDone, wgCount, cycle, subCancelled,
                   fetchVars, compareVars>>

\* Faulty variant: a probe error cancels the cycle's context, as an errgroup
\* would.
ProbeReturnsCancelOnError(c, i) ==
    /\ i \in DOMAIN probe[c]
    /\ probe[c][i] = "probing"
    /\ \E r \in {"sendOk", "sendErr"} :
          /\ probe' = [probe EXCEPT ![c][i] = r]
          /\ subCancelled' = [subCancelled EXCEPT ![c] = @ \/ r = "sendErr"]
    /\ UNCHANGED <<runPc, closePc, rootDone, wgCount, cycle, scrapePc,
                   targets, published,
                   fetchVars, compareVars>>

\* probe goroutine: info, err := s.prober.Probe(ctx, target) returns, with or
\* without an error; the goroutine goes on to send on results.
ProbeReturns(c, i) ==
    /\ i \in DOMAIN probe[c]
    /\ probe[c][i] = "probing"
    /\ \E r \in {"sendOk", "sendErr"} : probe' = [probe EXCEPT ![c][i] = r]
    /\ UNCHANGED <<runPc, closePc, rootDone, wgCount, cycle, subCancelled, scrapePc,
                   targets, published,
                   fetchVars, compareVars>>

\* Faulty variant: the send is in a select with <-ctx.Done(); the result of a
\* probe whose context is done is dropped.
PublishUnlessDone(c, i) ==
    /\ i \in DOMAIN probe[c]
    /\ probe[c][i] \in {"sendOk", "sendErr"}
    /\ published' = [published EXCEPT
                       ![c][i] = IF CtxDone(c) THEN @
                                 ELSE Append(@, IF probe[c][i] = "sendOk" THEN "ok" ELSE "err")]
    /\ probe' = [probe EXCEPT ![c][i] = "done"]
    /\ UNCHANGED <<runPc, closePc, rootDone, wgCount, cycle, subCancelled, scrapePc,
                   targets, fetchVars, compareVars>>

\* probe goroutine: results <- ProbeResult{info, err} completes (the consumer
\* receives it, or the channel has room); deferred wg.Done().
Publish(c, i) ==
    /\ i \in DOMAIN probe[c]
    /\ probe[c][i] \in {"sendOk", "sendErr"}
    /\ published' = [published EXCEPT
                       ![c][i] = Append(@, IF probe[c][i] = "sendOk" THEN "ok" ELSE "err")]
    /\ probe' = [probe EXCEPT ![c][i] = "done"]
    /\ UNCHANGED <<runPc, closePc, rootDone, wgCount, cycle, subCancelled, scrapePc,
                   targets,
                   fetchVars, compareVars>>

\* scrape: wg.Wait() returns; scrape returns.
ScrapeReturn(c) ==
    /\ scrapePc[c] = "wait"
    /\ \A i \in 1..Len(probe[c]) : probe[c][i] = "done"
    /\ scrapePc' = [scrapePc EXCEPT ![c] = "returned"]
    /\ UNCHANGED <<runPc, closePc, rootDone, wgCount, cycle, subCancelled, targets,
                   probe, published,
                   fetchVars, compareVars>>

ScraperNext ==
    \/ Start
    \/ Close
    \/ CloseReturn
    \/ RunCycle
    \/ RunTick
    \/ RunShutdown
    \/ \E c \in Cycles : DiscoverFails(c)
    \/ \E c \in Cycles : DiscoverSucceeds(c)
    \/ \E c \in Cycles : \E i \in Positions : ProbeReturns(c, i)
    \/ \E c \in Cycles : \E i \in Positions : Publish(c, i)
    \/ \E c \in Cycles : ScrapeReturn(c)

\* ------------------------------------------------- comparator calls
\* The SnapshotFile values Compare is called with; BaseSlot may exceed Slot.
CompareBaseSlots == {0, 1, 2, 3}
CompareHashes == {1, 2}
CompareValues == [Slot : Slots, BaseSlot : CompareBaseSlots, Hash : CompareHashes]

\* No comparison is made by this process.
CompareAbsent == cmpArgs = <<>> /\ cmpRes = <<>>

\* Three values are picked; nothing is compared yet.
CompareStart ==
    /\ cmpArgs \in CompareValues \X CompareValues \X CompareValues
    /\ cmpRes = <<>>

\* (&SnapshotFile{...}).Compare(&SnapshotFile{...}) on the picked values.
CompareCalls ==
    /\ cmpRes = <<>>
    /\ cmpArgs # <<>>
    /\ LET a == cmpArgs[1]
           b == cmpArgs[2]
           c == cmpArgs[3]
       IN  cmpRes' = <<Compare(a, a), Compare(a, b), Compare(b, a), Compare(b, c),
                       Compare(a, c)>>
    /\ UNCHANGED <<cmpArgs, fetchVars, scraperVars>>

CompareNext == CompareCalls

\* ------------------------------------------------------ specifications
\* The fetch tool: no scraper is constructed in this process.
FetchInit == FetchStart /\ ScraperStart /\ CompareAbsent
SpecFetch == FetchInit /\ [][FetchNext]_vars

\* The scraper.
ScraperInit == ScraperStart /\ FetchAbsent /\ CompareAbsent
SpecScraper == ScraperInit /\ [][ScraperNext]_vars

\* The comparator on its own.
CompareInit == CompareStart /\ FetchAbsent /\ ScraperStart
SpecCompare == CompareInit /\ [][CompareNext]_vars

\* The goroutines of the Go runtime are scheduled fairly: a loop iteration or a
\* return that stays possible is taken.  DownloadSnapshotFile returns once its
\* context is cancelled; without cancellation a download may take forever.
FairFetch ==
    /\ SpecFetch
    /\ WF_vars(GroupGo)
    /\ WF_vars(LoopEnd)
    /\ WF_vars(GroupWait)
    /\ \A f \in 1..MaxFiles : WF_vars(DownloadAbort(f))

\* Probe calls return, and the consumer keeps receiving from results.
FairScraper ==
    /\ SpecScraper
    /\ WF_vars(\E c \in Cycles : \E i \in Positions : ProbeReturns(c, i))
    /\ WF_vars(\E c \in Cycles : \E i \in Positions : Publish(c, i))

\* The run goroutine and the caller of Close are scheduled; a select whose
\* Done case is ready again and again takes it in the end.  No probe has to
\* return and nobody has to receive from results.
FairClose ==
    /\ SpecScraper
    /\ WF_vars(RunCycle)
    /\ SF_vars(RunShutdown)
    /\ WF_vars(CloseReturn)

\* -------------------------------------------------------------- claims
Files == 1..Len(task)
AllLaunchedAndFinished == next = Len(snap.Files) /\ \A f \in Files : Finished(f)

\* A scrape goroutine or a probe goroutine is still running or blocked.
ScrapeOutstanding(c) == scrapePc[c] \in {"discover", "wait"}
ProbeOutstanding(c, i) == probe[c][i] # "done"
Outstanding ==
    \E c \in Cycles : ScrapeOutstanding(c) \/ \E i \in 1..Len(probe[c]) : ProbeOutstanding(c, i)

\* C1: when Close() has returned, no scrape goroutine and no probe goroutine of
\* any cycle is still outstanding (running, or blocked sending its ProbeResult).
C1_CloseDrainsAllTasks == closePc = "returned" => ~Outstanding

\* C2: every cycle whose discovery succeeded publishes exactly one ProbeResult
\* per target: never two, and (with probes returning and the consumer
\* receiving) eventually one, also for a cancelled cycle; a scrape that has
\* returned has published all of them.
C2_OneResultPerTarget ==
    /\ [](\A c \in Cycles : \A i \in 1..Len(published[c]) :
            /\ Len(published[c][i]) <= 1
            /\ Len(published[c]) = Len(targets[c])
            /\ scrapePc[c] = "returned" => Len(published[c][i]) = 1)
    /\ \A c \in Cycles :
          (scrapePc[c] = "wait") ~>
              (\A i \in 1..Len(targets[c]) : Len(published[c][i]) = 1)

\* A cancelled cycle with two targets has published both results, one an error.
C2_Witness ==
    \E c \in Cycles :
        /\ subCancelled[c]
        /\ Len(targets[c]) >= 2
        /\ published[c][1] = <<"ok">>
        /\ published[c][2] = <<"err">>

\* C3: a download that returned an error has cancelled the shared context and
\* made the group's result an error; the shared context is not cancelled while
\* no download has failed and not all have finished.
C3_FailureCancelsSharedContext ==
    /\ (\E f \in Files : Failed(f)) => (ctxDone /\ groupErr # NilErr)
    /\ (pc = "done" /\ \E f \in Files : Failed(f)) => downloadErr # NilErr
    /\ ((\A f \in Files : ~Failed(f)) /\ ~AllLaunchedAndFinished) => ~ctxDone

\* One download has failed; a sibling is in flight under the cancelled context.
C3_Witness ==
    \E f, g \in Files : task[f] = "failed" /\ task[g] = "running" /\ ctxDone

\* C4: the result of group.Wait() is nil exactly when every download returned
\* nil; otherwise it is the error of the first download that failed, never a
\* later one and never a cancellation error.
C4_FirstErrorIsResult ==
    pc = "done" =>
        /\ (downloadErr = NilErr) <=> (\A f \in Files : task[f] = "ok")
        /\ downloadErr = firstErr
        /\ downloadErr.cause # "canceled"

\* Two downloads failed on their own; the result is the error of one of them.
C4_Witness ==
    /\ pc = "done"
    /\ \E f, g \in Files :
          f # g /\ task[f] = "failed" /\ task[g] = "failed" /\ downloadErr.file = f

\* C5: once the advice is NothingFound or UpToDate, the tool starts no download
\* and returns normally, whatever the local inventory (the empty one included).
C5_NoDownloadNormalExit ==
    (advice \in {AdviceNothingFound, AdviceUpToDate} /\ pc # "switch") =>
        (pc = "returned" /\ next = 0 /\ task = <<>>)

\* C6: the snapshot whose files are downloaded is the one the advisor chose,
\* the best remote entry under Compare, in whatever order the catalog came.
C6_DownloadsChosenSnapshot ==
    pc \in {"launch", "wait", "done"} =>
        /\ snap = chosen
        /\ \A i \in 1..Len(remoteSnaps) : Compare(snap, remoteSnaps[i]) # worsee

\* C7: when ListSnapshots or GetBestSnapshots fails, run() stops there: the
\* advisor is not called, no download task is started, nothing is called twice.
C7_InputErrorIsFatal ==
    /\ calls.list <= 1
    /\ calls.tracker <= 1
    /\ err # Nil =>
          /\ pc = Fatal
          /\ calls.advisor = 0
          /\ next = 0
          /\ task = <<>>
          /\ err = "list" => calls.tracker = 0

\* The tracker query failed after a successful, non-empty local listing.
C7_Witness == err = "tracker" /\ pc = Fatal /\ localSnaps # <<>>

\* C8: one task per file of the snapshot, and DownloadSnapshotFile is called
\* exactly once per file, also for a file whose download failed.
C8_EachFileAttemptedOnce ==
    pc \in {"launch", "wait", "done"} =>
        /\ Len(task) = Len(snap.Files)
        /\ \A f \in Files :
              /\ attempts[f] <= 1
              /\ attempts[f] = 1 <=> f <= next
              /\ Finished(f) => attempts[f] = 1
        /\ pc \in {"wait", "done"} => \A f \in Files : attempts[f] = 1

\* The operation is over, a download failed, and there was more than one file.
C8_Witness ==
    /\ pc = "done"
    /\ Len(task) >= 2
    /\ \E f \in Files : task[f] = "failed" /\ attempts[f] = 1

\* C9: once a download has failed, group.Wait() returns with an error, even if
\* the other downloads never complete on their own and only abort on the
\* cancelled context.
C9_FailureEndsOperation ==
    (\E f \in 1..MaxFiles : f \in DOMAIN task /\ task[f] = "failed")
        ~> (pc = "done" /\ downloadErr # NilErr)

\* The operation ended with an error and a sibling was aborted by cancellation.
C9_Witness ==
    /\ pc = "done"
    /\ downloadErr # NilErr
    /\ \E f, g \in Files : task[f] = "failed" /\ task[g] = "canceled"

\* A cycle whose discovery failed has no targets, no probe and no result.
C10_SkippedCycle ==
    \A c \in Cycles :
        scrapePc[c] = "skipped" =>
            targets[c] = <<>> /\ probe[c] = <<>> /\ published[c] = <<>>

\* The step in which a discovery fails leaves the control loop, the contexts
\* and the wait group as they are.
C10_FailureLeavesLoop ==
    \A c \in Cycles :
        (scrapePc[c] = "discover" /\ scrapePc'[c] = "skipped") =>
            /\ runPc' = runPc
            /\ rootDone' = rootDone
            /\ subCancelled' = subCancelled
            /\ wgCount' = wgCount
            /\ cycle' = cycle

\* Every iteration of the control loop, whatever became of the cycles before
\* it, starts a scrape that is about to call discovery.
C10_IterationStartsDiscovery ==
    (runPc = "loop" /\ runPc' = "select") =>
        (cycle' = cycle + 1 /\ scrapePc'[cycle'] = "discover")

\* C10: a cycle whose discovery failed has no targets, no probe and no result;
\* the failure changes nothing of the control loop or of the root context, the
\* control loop returns only on shutdown, and the iteration after a tick
\* starts a new cycle that calls discovery.
C10_DiscoveryFailureSkipsCycle ==
    /\ []C10_SkippedCycle
    /\ [][C10_FailureLeavesLoop]_vars
    /\ [][C10_IterationStartsDiscovery]_vars
    /\ [](runPc = "returned" => rootDone)

\* After a cycle whose discovery failed, the next cycle has called discovery
\* and its probes are running; the scraper has not been shut down.
C10_Witness ==
    \E c \in Cycles :
        /\ c + 1 \in Cycles
        /\ scrapePc[c] = "skipped"
        /\ scrapePc[c + 1] = "wait"
        /\ Len(probe[c + 1]) > 0
        /\ runPc = "select"
        /\ ~rootDone

\* The step in which Probe returns an error for target i of cycle c changes only
\* that probe goroutine: no context is cancelled, the control loop, the scrape
\* goroutines and the other probes stay as they are.
C11_ErrorStepIsLocal ==
    \A c \in Cycles : \A i \in Positions :
        (i \in DOMAIN probe[c] /\ probe[c][i] = "probing" /\ probe'[c][i] = "sendErr") =>
            /\ subCancelled' = subCancelled
            /\ rootDone' = rootDone
            /\ runPc' = runPc
            /\ scrapePc' = scrapePc
            /\ published' = published
            /\ \A d \in Cycles : \A j \in DOMAIN probe[d] :
                  (d # c \/ j # i) => probe'[d][j] = probe[d][j]

\* The step that publishes the result of a failed probe adds one result with
\* the error set to that target's results, and to no other.
C11_ErrorIsPublishedAsData ==
    \A c \in Cycles : \A i \in Positions :
        (i \in DOMAIN probe[c] /\ probe[c][i] = "sendErr" /\ probe'[c][i] # "sendErr") =>
            /\ published'[c][i] = Append(published[c][i], "err")
            /\ \A d \in Cycles : \A j \in DOMAIN published[d] :
                  (d # c \/ j # i) => published'[d][j] = published[d][j]

\* C11: a probe error for one target cancels nothing and stops nothing; it is
\* published as the error of that target's ProbeResult, and the other targets
\* of the cycle are still probed and published.
C11_ProbeErrorIsData ==
    /\ [][C11_ErrorStepIsLocal]_vars
    /\ [][C11_ErrorIsPublishedAsData]_vars
    /\ \A c \in Cycles :
          (\E i \in DOMAIN probe[c] : probe[c][i] = "sendErr") ~>
              (\A j \in 1..Len(targets[c]) : Len(published[c][j]) = 1)

\* In a running, uncancelled cycle the first target's probe failed and the
\* second one's succeeded; both results are published.
C11_Witness ==
    \E c \in Cycles :
        /\ Len(targets[c]) >= 2
        /\ published[c][1] = <<"err">>
        /\ published[c][2] = <<"ok">>
        /\ ~CtxDone(c)
        /\ runPc = "select"

\* The results of the comparator calls.
ResAA == cmpRes[1]
ResAB == cmpRes[2]
ResBA == cmpRes[3]
ResBC == cmpRes[4]
ResAC == cmpRes[5]
Compared == cmpRes # <<>>

\* C12: Compare is a consistent three-way order: Compare(a,a) is same, better
\* one way is worse the other way, same is same both ways, and better is
\* transitive, across all tiers and for BaseSlot above Slot.
C12_CompareIsConsistentOrder ==
    Compared =>
        /\ ResAA = sameee
        /\ {ResAB, ResBA, ResBC, ResAC} \subseteq {worsee, sameee, better}
        /\ (ResAB = better) <=> (ResBA = worsee)
        /\ (ResAB = sameee) <=> (ResBA = sameee)
        /\ (ResAB = better /\ ResBC = better) => ResAC = better

\* a beats b on the full-over-incremental tier, b (its BaseSlot above its Slot)
\* beats c on the hash tier, and a beats c.
C12_Witness ==
    /\ Compared
    /\ cmpArgs[1].Slot = cmpArgs[2].Slot
    /\ cmpArgs[1].BaseSlot = 0
    /\ cmpArgs[2].BaseSlot > cmpArgs[2].Slot
    /\ cmpArgs[3].Slot = cmpArgs[2].Slot
    /\ cmpArgs[3].BaseSlot = cmpArgs[2].BaseSlot
    /\ cmpArgs[3].Hash < cmpArgs[2].Hash
    /\ ResAB = better /\ ResBC = better /\ ResAC = better

\* C13: Compare(a,b) follows the tiers: the higher Slot is better; at equal
\* Slot a full snapshot beats every incremental one; at equal Slot, both
\* incremental, the higher BaseSlot is better; at equal Slot and BaseSlot the
\* greater Hash is better; same only for equal Slot, BaseSlot and Hash.
C13_CompareFollowsTiers ==
    Compared =>
        LET a == cmpArgs[1]
            b == cmpArgs[2]
        IN  /\ a.Slot > b.Slot => ResAB = better
            /\ a.Slot < b.Slot => ResAB = worsee
            /\ (a.Slot = b.Slot /\ a.BaseSlot = 0 /\ b.BaseSlot # 0) => ResAB = better
            /\ (a.Slot = b.Slot /\ a.BaseSlot # 0 /\ b.BaseSlot = 0) => ResAB = worsee
            /\ (a.Slot = b.Slot /\ a.BaseSlot # 0 /\ b.BaseSlot # 0
                  /\ a.BaseSlot > b.BaseSlot) => ResAB = better
            /\ (a.Slot = b.Slot /\ a.BaseSlot = b.BaseSlot /\ a.Hash > b.Hash)
                  => ResAB = better
            /\ (ResAB = sameee) <=>
                  (a.Slot = b.Slot /\ a.BaseSlot = b.BaseSlot /\ a.Hash = b.Hash)

\* A full snapshot was compared with an incremental one of the same Slot whose
\* BaseSlot exceeds the Slot and whose Hash is greater: the full one is better.
C13_Witness ==
    /\ Compared
    /\ cmpArgs[1].Slot = cmpArgs[2].Slot
    /\ cmpArgs[1].BaseSlot = 0
    /\ cmpArgs[2].BaseSlot > cmpArgs[2].Slot
    /\ cmpArgs[2].Hash > cmpArgs[1].Hash
    /\ ResAB = better /\ ResBA = worsee

\* The advisor has returned to run().
Advised == calls.advisor = 1

\* C14: the advisor answers NothingFound, with no chosen snapshot, exactly when
\* the remote catalog is empty, whatever the local inventory and the age limits;
\* on that advice run() returns without starting any download.
C14_NothingFoundIffEmptyCatalog ==
    Advised =>
        /\ (advice = AdviceNothingFound /\ chosen = NoSnapshot) <=> remoteSnaps = <<>>
        /\ advice = AdviceNothingFound =>
              /\ pc \in {"switch", "returned"}
              /\ next = 0
              /\ task = <<>>
              /\ snap = NoSnapshot

\* run() has returned on NothingFound although snapshots exist locally.
C14_Witness ==
    /\ pc = "returned"
    /\ advice = AdviceNothingFound
    /\ remoteSnaps = <<>>
    /\ localSnaps # <<>>

\* Slot of the best entry of a list under Compare, 0 for the empty list.
BestSlot(snaps) == IF snaps = <<>> THEN 0 ELSE SortBestFirst(snaps)[1].Slot

SomeProbe(c, positions) == \E i \in DOMAIN probe[c] : probe[c][i] \in positions

\* C16: a tick seen by the loop cancels the sub-context of the cycle in flight;
\* the next cycle then starts at discovery on a fresh, uncancelled sub-context,
\* one cycle at a time, touching no probe of the earlier cycle, and the start is
\* possible whatever the earlier cycle's probes are doing.
C16_TickCancelsAndRestarts ==
    /\ [][(runPc = "select" /\ runPc' = "loop") =>
              (subCancelled'[cycle] /\ cycle' = cycle)]_vars
    /\ [][(runPc = "loop" /\ runPc' = "select") =>
              /\ cycle' = cycle + 1
              /\ cycle > 0 => subCancelled[cycle]
              /\ ~subCancelled'[cycle']
              /\ scrapePc'[cycle'] = "discover"
              /\ probe' = probe
              /\ published' = published]_vars
    /\ [](runPc = "loop" => ENABLED RunCycle)

\* The second cycle probes while the cancelled first cycle still has one probe
\* running and another blocked on its send.
C16_Witness ==
    /\ cycle = 2
    /\ subCancelled[1]
    /\ SomeProbe(1, {"probing"})
    /\ SomeProbe(1, {"sendOk", "sendErr"})
    /\ scrapePc[2] = "wait"
    /\ SomeProbe(2, {"probing"})

\* C17: once the root context is cancelled, the loop leaves its select only by
\* cancelling the cycle's sub-context and returning; it starts no further
\* iteration, pending tick or not.
C17_ShutdownEndsLoop ==
    [][(rootDone /\ runPc = "select" /\ runPc' # runPc) =>
           (runPc' = "returned" /\ subCancelled'[cycle] /\ cycle' = cycle)]_vars

\* C18: of the cycles started so far only the latest can have an uncancelled
\* sub-context, so no two cycles have probes running under a live context.
C18_OneLiveSubContext ==
    /\ \A c \in Cycles : c < cycle => subCancelled[c]
    /\ \A c \in Cycles : c > cycle => scrapePc[c] = "none"
    /\ \A c, d \in Cycles :
          (c # d /\ SomeProbe(c, {"probing"}) /\ SomeProbe(d, {"probing"})) =>
              (CtxDone(c) \/ CtxDone(d))

\* Both cycles have probes running; only the second one's context is live.
C18_Witness ==
    /\ cycle = 2
    /\ ~rootDone
    /\ subCancelled[1] /\ ~subCancelled[2]
    /\ \A i \in DOMAIN probe[1] : probe[1][i] = "probing"
    /\ probe[1] # <<>>
    /\ SomeProbe(2, {"probing"})

\* C19: a Close() that has cancelled the root context returns in the end, with
\* no probe returning and no result ever received; at its select after the
\* cancellation run() can always return, whatever the probes are doing.
C19_CloseReturns ==
    /\ (closePc = "waiting") ~> (closePc = "returned")
    /\ []((runPc = "select" /\ rootDone) => ENABLED RunShutdown)

\* Close() has returned while every probe of the first cycle is blocked on its
\* send and nothing was ever received.
C19_Witness ==
    /\ closePc = "returned"
    /\ probe[1] # <<>>
    /\ \A i \in DOMAIN probe[1] : probe[1][i] \in {"sendOk", "sendErr"}
    /\ \A c \in Cycles : \A i \in DOMAIN published[c] : published[c][i] = <<>>

====
